---- MODULE Spec2Model ----
(***************************************************************************)
(* Model of pkg_extractor (src/pkg_extractor/src/lib.rs): one run of        *)
(* PkgExtractor::extract over a flat package.  The package container, the   *)
(* component readers and the cpio payload reader are external crates; the   *)
(* model draws every result they can hand back (Ok / None / Err, headers,   *)
(* read lengths) from small sets.  The filesystem is a set of directories   *)
(* and a map from file paths to contents.                                   *)
(*                                                                          *)
(* Strings are sequences of one-character strings, so that is_empty,        *)
(* strip_prefix, PathBuf::join and Path::parent are computed, not assumed.  *)
(* A path on disk is the sequence of its components from "/".               *)
(* The bytes of an entry are symbolic: byte k of the entry that component   *)
(* comp's payload is at.  A run of consecutive bytes is a segment           *)
(* [comp, lo, hi) and a file's contents are a sequence of segments,         *)
(* adjacent runs merged.                                                    *)
(***************************************************************************)
EXTENDS Integers, Sequences, FiniteSets, TLC

VARIABLES
    headers,       \* the entry headers the archive's payloads are made of
    pc,            \* position in extract / extract_component_package
    result,        \* what extract returned: "none" (running), "Ok", or the
                   \* call whose Err it returned
    flavor,        \* pkg_reader.flavor(): "none", "Component", "Product"
    ncomp,         \* component_packages.len() (1 for a root component)
    comp,          \* index of the component being extracted
    nread,         \* headers read_next has returned in this component
    header,        \* the entry header of this iteration
    target_path,   \* output_dir.join(clean_name), parsed
    remaining,     \* the copy loop's `remaining`
    stream_pos,    \* the payload reader's offset in the entry's content
    total_bytes,   \* the component's running byte total
    dirs,          \* directories on disk
    files,         \* regular files on disk: path -> contents
    finish_calls,  \* history: finish() calls since the last header
    total_before,  \* history: total_bytes when the header was read
    started,       \* history: components extract_component_package was run on
    regular_by,    \* history: path -> components that had a Regular entry there
    created_by,    \* history: path -> components whose File::create succeeded there
    matched,       \* history: entries of the end-to-end scenario seen so far
    header_error   \* history: a read_next of this run returned an Err

vars == <<headers, pc, result, flavor, ncomp, comp, nread, header, target_path,
          remaining, stream_pos, total_bytes, dirs, files, finish_calls,
          total_before, started, regular_by, created_by, matched, header_error>>

----------------------------------------------------------------------------
(* Bounds of the model *)

MaxComponents == 2
MaxEntries == 3
\* A regular file longer than the copy buffer by this many bytes.
BigExtra == 3
\* Reads of at most this many bytes may return any positive length.
SmallRead == 3

(* Program constants *)

BufLen == 8192
TypeMask == 61440
S_IFDIR == 16384
S_IFREG == 32768
S_IFLNK == 40960
S_IFSOCK == 49152
S_IFBLK == 24576
S_IFCHR == 8192
S_IFIFO == 4096

----------------------------------------------------------------------------
(* Strings *)

Payload == <<"P", "a", "y", "l", "o", "a", "d">>
PayloadSlash == Payload \o <<"/">>
Bin == <<"b", "i", "n">>
Tool == <<"t", "o", "o", "l">>
Big == <<"b", "i", "g">>
Evil == <<"e", "v", "i", "l">>
Etc == <<"e", "t", "c">>
Lnk == <<"l", "n", "k">>
DotDot == <<".", ".">>
Dot == <<".">>
Slash == <<"/">>

\* PkgExtractor::new: the output directory, relative to the working directory.
output_dir == <<"o", "u", "t">>
\* The process's working directory, as a path on disk.
Cwd == << <<"w">> >>
OutRoot == Cwd \o <<output_dir>>

Min(a, b) == IF a < b THEN a ELSE b

StartsWith(s, p) == Len(s) >= Len(p) /\ SubSeq(s, 1, Len(p)) = p

\* str::strip_prefix("Payload/").unwrap_or(name)
StripPrefix(name) ==
    IF StartsWith(name, PayloadSlash)
    THEN SubSeq(name, Len(PayloadSlash) + 1, Len(name))
    ELSE name

\* A name check that forgets the bare "Payload" entry.
IsSkippedButPayload(name) == name = <<>> \/ name = Dot

\* name.is_empty() || name == "." || name == "Payload"
IsSkipped(name) == name = <<>> \/ name = Dot \/ name = Payload

----------------------------------------------------------------------------
(* Paths: std::path as the extractor uses it *)

Front(s) == SubSeq(s, 1, Len(s) - 1)
Last(s) == s[Len(s)]

\* PathBuf::join: an absolute argument replaces the base; otherwise the
\* argument is appended after a separator.
Join(base, p) ==
    IF StartsWith(p, Slash) THEN p
    ELSE IF base = <<>> \/ Last(base) = "/" THEN base \o p
    ELSE base \o Slash \o p

\* Path::components: split at "/", dropping empty and "." components.
RECURSIVE Components(_, _)
Components(s, cur) ==
    LET done == IF cur = <<>> \/ cur = Dot THEN <<>> ELSE <<cur>> IN
    IF s = <<>> THEN done
    ELSE IF Head(s) = "/" THEN done \o Components(Tail(s), <<>>)
    ELSE Components(Tail(s), Append(cur, Head(s)))

\* A path as the operating system reads it: rooted or not, its components,
\* and whether it was written with a trailing separator.
ParsePath(s) ==
    [abs |-> StartsWith(s, Slash),
     comps |-> Components(s, <<>>),
     dirform |-> s # <<>> /\ Last(s) = "/"]

NoPath == [abs |-> FALSE, comps |-> <<>>, dirform |-> FALSE]

\* Path::parent: the path without its last component; None for "/" and "".
HasParent(p) == p.comps # <<>>
Parent(p) == [abs |-> p.abs, comps |-> Front(p.comps), dirform |-> FALSE]

StartDir(p) == IF p.abs THEN <<>> ELSE Cwd

----------------------------------------------------------------------------
(* The filesystem: std::fs::create_dir_all and File::create *)

\* Walks the components from `cur`, making each missing directory; stops with
\* an error at a component that is a regular file.
RECURSIVE MkdirWalk(_, _, _, _)
MkdirWalk(d, f, cur, rest) ==
    IF rest = <<>> THEN [ok |-> TRUE, dirs |-> d]
    ELSE IF Head(rest) = DotDot
    THEN MkdirWalk(d, f, IF cur = <<>> THEN cur ELSE Front(cur), Tail(rest))
    ELSE LET nxt == Append(cur, Head(rest)) IN
         IF nxt \in DOMAIN f THEN [ok |-> FALSE, dirs |-> d]
         ELSE MkdirWalk(d \cup {nxt}, f, nxt, Tail(rest))

\* fs::create_dir_all(p)
CreateDirAll(d, f, p) == MkdirWalk(d, f, StartDir(p), p.comps)

\* Resolves the components from `cur` through existing directories.
RECURSIVE Resolve(_, _, _)
Resolve(d, cur, rest) ==
    IF rest = <<>> THEN [ok |-> TRUE, at |-> cur]
    ELSE IF Head(rest) = DotDot
    THEN Resolve(d, IF cur = <<>> THEN cur ELSE Front(cur), Tail(rest))
    ELSE LET nxt == Append(cur, Head(rest)) IN
         IF nxt \in d THEN Resolve(d, nxt, Tail(rest))
         ELSE [ok |-> FALSE, at |-> cur]

\* The file a path names, when File::create can open it: its directory
\* exists and the path names neither a directory nor "..".
FileTarget(d, p) ==
    IF p.comps = <<>> \/ p.dirform \/ Last(p.comps) = DotDot
    THEN [ok |-> FALSE, at |-> <<>>]
    ELSE LET dir == Resolve(d, StartDir(p), Front(p.comps))
             at == Append(dir.at, Last(p.comps))
         IN [ok |-> dir.ok /\ at \notin d, at |-> at]

\* A File::create that opens the file there without truncating it.
CreateFileKeeping(d, f, p) ==
    LET t == FileTarget(d, p) IN
    [ok |-> t.ok,
     files |-> IF t.ok
               THEN [q \in DOMAIN f \cup {t.at} |->
                        IF q \in DOMAIN f THEN f[q] ELSE <<>>]
               ELSE f]

\* File::create(p): creates the file, or truncates the one there.
CreateFile(d, f, p) ==
    LET t == FileTarget(d, p) IN
    [ok |-> t.ok,
     files |-> IF t.ok
               THEN [q \in DOMAIN f \cup {t.at} |-> IF q = t.at THEN <<>> ELSE f[q]]
               ELSE f]

\* The bytes [lo, hi) of the entry that component c's payload is at.
Segment(c, lo, hi) == [comp |-> c, lo |-> lo, hi |-> hi]

\* Contents followed by one more run of bytes.
AppendBytes(content, seg) ==
    IF seg.lo = seg.hi THEN content
    ELSE IF content # <<>>
            /\ Last(content).comp = seg.comp
            /\ Last(content).hi = seg.lo
    THEN Append(Front(content), [Last(content) EXCEPT !.hi = seg.hi])
    ELSE Append(content, seg)

\* outfile.write_all(bytes): the open file grows by the bytes.
WriteAll(f, at, seg) == [f EXCEPT ![at] = AppendBytes(f[at], seg)]

ContentLen(content) ==
    IF content = <<>> THEN 0
    ELSE LET RECURSIVE Sum(_)
             Sum(i) == IF i = 0 THEN 0
                       ELSE Sum(i - 1) + (content[i].hi - content[i].lo)
         IN Sum(Len(content))

----------------------------------------------------------------------------
(* Entry Classifier: FileType::from_mode *)

RECURSIVE BitAnd(_, _)
BitAnd(a, b) ==
    IF a = 0 \/ b = 0 THEN 0
    ELSE (a % 2) * (b % 2) + 2 * BitAnd(a \div 2, b \div 2)

\* mode & 0o170000
MaskMode(mode) == BitAnd(mode, TypeMask)

from_mode(mode) ==
    LET m == MaskMode(mode) IN
    CASE m = S_IFDIR -> "Directory"
      [] m = S_IFREG -> "Regular"
      [] m = S_IFLNK -> "Symlink"
      [] m = S_IFSOCK -> "Socket"
      [] m = S_IFBLK -> "BlockDevice"
      [] m = S_IFCHR -> "CharacterDevice"
      [] m = S_IFIFO -> "Fifo"
      [] OTHER -> "Unknown"

----------------------------------------------------------------------------
(* What an archive can present *)

DirMode == S_IFDIR + 493
RegMode == S_IFREG + 420
\* A regular file's mode with bits above the low 16 set.
RegModeHigh == 65536 + S_IFREG + 420
UnsupportedModes ==
    {S_IFLNK + 511, S_IFSOCK, S_IFBLK, S_IFCHR, S_IFIFO, 0, TypeMask}

BinDirName == PayloadSlash \o Bin \o Slash
ToolName == PayloadSlash \o Bin \o Slash \o Tool
BareToolName == Bin \o Slash \o Tool
BigName == PayloadSlash \o Big
EvilName == DotDot \o Slash \o Evil
AbsName == PayloadSlash \o Slash \o Etc \o Slash \o Lnk
UnderToolName == ToolName \o Slash \o Lnk
LnkName == PayloadSlash \o Bin \o Slash \o Lnk
TwicePayloadName == PayloadSlash \o PayloadSlash

BigSize == BufLen + BigExtra

Hdr(name, mode, size) == [name |-> name, mode |-> mode, file_size |-> size]

NoHeader == Hdr(<<>>, 0, 0)

\* Archives whose components write the same path.
CollisionHeaders ==
    {Hdr(Payload, DirMode, 0), Hdr(ToolName, RegMode, 3),
     Hdr(BareToolName, RegModeHigh, 3), Hdr(ToolName, RegMode, 0)}

\* Archives with a file longer than the copy buffer.
BufferHeaders ==
    {Hdr(Dot, DirMode, 0), Hdr(BigName, RegMode, BigSize),
     Hdr(PayloadSlash, RegMode, 3), Hdr(LnkName, S_IFLNK + 511, 3)}

\* Archives that exercise the entry names.
NameHeaders ==
    {Hdr(n, DirMode, 0) : n \in {<<>>, Dot, Payload, BinDirName, EvilName,
                                 TwicePayloadName}}
    \cup {Hdr(Payload, RegMode, 3), Hdr(ToolName, RegMode, 3),
          Hdr(AbsName, RegMode, 1)}

\* Archives that exercise the file types.
TypeHeaders ==
    {Hdr(LnkName, m, 0) : m \in UnsupportedModes}
    \cup {Hdr(Payload, DirMode, 0), Hdr(ToolName, DirMode, 0),
          Hdr(ToolName, RegMode, 3), Hdr(UnderToolName, S_IFLNK + 511, 3)}

HeaderFamilies == {CollisionHeaders, BufferHeaders, NameHeaders, TypeHeaders}

\* The lengths a read of up to n bytes may return, besides 0 and an error.
ReadLens(n) == {n} \cup (IF n <= SmallRead THEN 1..n ELSE {n - 1})

\* The end-to-end scenario of the specification's section 8.
Scenario == <<Hdr(Payload, DirMode, 0), Hdr(BinDirName, DirMode, 0),
              Hdr(ToolName, RegMode, 3)>>
Deviated == Len(Scenario) + 1

----------------------------------------------------------------------------
(* Initial state: PkgExtractor::new, before extract *)

Init ==
    /\ headers \in HeaderFamilies
    /\ pc = "start"
    /\ result = "none"
    /\ flavor = "none"
    /\ ncomp = 0
    /\ comp = 0
    /\ nread = 0
    /\ header = NoHeader
    /\ target_path = NoPath
    /\ remaining = 0
    /\ stream_pos = 0
    /\ total_bytes = 0
    \* The output directory is missing, is there already, or is a regular file.
    /\ \E before \in {"missing", "directory", "file"} :
         /\ dirs = {<<>>, Cwd} \cup (IF before = "directory" THEN {OutRoot} ELSE {})
         /\ files = [q \in (IF before = "file" THEN {OutRoot} ELSE {}) |-> <<>>]
    /\ finish_calls = 0
    /\ total_before = 0
    /\ started = <<>>
    /\ regular_by = [q \in {} |-> {}]
    /\ created_by = [q \in {} |-> {}]
    /\ matched = 0
    /\ header_error = FALSE

----------------------------------------------------------------------------
(* Package Orchestrator: extract, extract_root_component,                   *)
(* extract_product_package                                                  *)

entry_vars == <<header, target_path, remaining, stream_pos>>
disk == <<dirs, files>>
history == <<finish_calls, total_before, started, regular_by, created_by, matched, header_error>>

\* The calls whose Err extract hands to its caller.
Errors == {"create_dir_all(output_dir)", "PkgReader::new", "root_component",
           "create_dir_all(parent)", "create_dir_all(target_path)",
           "File::create", "write_all", "finish"}

\* extract returns r: an Err reaches it through every `?` on the way up.
Return(r) ==
    /\ pc' = "done"
    /\ result' = r

\* fs::create_dir_all(&self.output_dir)?
CreateOutputDir ==
    /\ pc = "start"
    /\ LET made == CreateDirAll(dirs, files, ParsePath(output_dir)) IN
         /\ dirs' = made.dirs
         /\ IF made.ok
            THEN pc' = "open" /\ UNCHANGED result
            ELSE Return("create_dir_all(output_dir)")
    /\ UNCHANGED <<headers, flavor, ncomp, comp, nread, total_bytes, files>>
    /\ UNCHANGED <<entry_vars, history>>

\* PkgReader::new(reader)? and pkg_reader.flavor()
OpenPackage ==
    /\ pc = "open"
    /\ \E r \in {"Err", "Component", "Product"} :
         IF r = "Err"
         THEN Return("PkgReader::new") /\ UNCHANGED flavor
         ELSE /\ flavor' = r
              /\ pc' = IF r = "Component" THEN "root_component" ELSE "product"
              /\ UNCHANGED result
    /\ UNCHANGED <<headers, ncomp, comp, nread, total_bytes, disk, entry_vars, history>>

\* extract_root_component: pkg_reader.root_component()?
RootComponent ==
    /\ pc = "root_component"
    /\ \E r \in {"Err", "None", "Some"} :
         CASE r = "Err" -> Return("root_component") /\ UNCHANGED <<ncomp, comp, started>>
           [] r = "None" -> Return("Ok") /\ UNCHANGED <<ncomp, comp, started>>
           [] r = "Some" -> /\ ncomp' = 1
                            /\ comp' = 1
                            /\ started' = Append(started, 1)
                            /\ pc' = "payload"
                            /\ UNCHANGED result
    /\ UNCHANGED <<headers, flavor, nread, total_bytes, disk, entry_vars>>
    /\ UNCHANGED <<finish_calls, total_before, regular_by, created_by, matched, header_error>>

\* extract_product_package: pkg_reader.component_packages()
ComponentPackages ==
    /\ pc = "product"
    /\ \/ Return("Ok") /\ UNCHANGED ncomp
       \/ \E n \in 0..MaxComponents :
            /\ ncomp' = n
            /\ pc' = "next_component"
            /\ UNCHANGED result
    /\ UNCHANGED <<headers, flavor, comp, nread, total_bytes, disk, entry_vars, history>>

\* for component_pkg_reader in component_packages { ... }
NextComponent ==
    /\ pc = "next_component"
    /\ IF comp < ncomp
       THEN /\ comp' = comp + 1
            /\ started' = Append(started, comp + 1)
            /\ pc' = "payload"
            /\ UNCHANGED result
       ELSE Return("Ok") /\ UNCHANGED <<comp, started>>
    /\ UNCHANGED <<headers, flavor, ncomp, nread, total_bytes, disk, entry_vars>>
    /\ UNCHANGED <<finish_calls, total_before, regular_by, created_by, matched, header_error>>

----------------------------------------------------------------------------
(* Component Extractor: extract_component_package *)

\* extract_component_package returns Ok(()) to its caller.
ComponentOk ==
    IF flavor = "Product"
    THEN pc' = "next_component" /\ UNCHANGED result
    ELSE Return("Ok")

\* if let Ok(Some(mut payload_reader)) = component_pkg_reader.payload_reader()
PayloadReader ==
    /\ pc = "payload"
    /\ \E r \in {"Some", "None", "Err"} :
         IF r = "Some"
         THEN pc' = "read_next" /\ UNCHANGED result
         ELSE ComponentOk
    /\ nread' = 0
    /\ total_bytes' = 0
    /\ finish_calls' = 0
    /\ total_before' = 0
    /\ UNCHANGED <<headers, flavor, ncomp, comp, disk, entry_vars>>
    /\ UNCHANGED <<started, regular_by, created_by, matched, header_error>>

\* while let Ok(Some(header)) = payload_reader.read_next()
ReadNext ==
    /\ pc = "read_next"
    /\ \/ /\ nread < MaxEntries
          /\ \E h \in headers :
               /\ header' = h
               /\ matched' = IF /\ matched < Len(Scenario)
                                /\ comp = 1 /\ nread = matched
                                /\ h = Scenario[matched + 1]
                             THEN matched + 1
                             ELSE Deviated
          /\ nread' = nread + 1
          /\ stream_pos' = 0
          /\ finish_calls' = 0
          /\ total_before' = total_bytes
          /\ pc' = "entry"
          /\ UNCHANGED <<result, header_error>>
       \/ \* Ok(None) and Err(_) both end the loop
          /\ \E r \in {"None", "Err"} :
               /\ ComponentOk
               /\ header_error' = (header_error \/ r = "Err")
          /\ UNCHANGED <<header, nread, stream_pos, finish_calls, matched>>
          /\ UNCHANGED total_before
    /\ UNCHANGED <<headers, flavor, ncomp, comp, total_bytes, disk, target_path, remaining>>
    /\ UNCHANGED <<started, regular_by, created_by>>

\* payload_reader.finish()?  The header and the loop's locals go out of scope.
FinishEntry ==
    /\ finish_calls' = finish_calls + 1
    /\ total_before' = 0
    /\ \E ok \in BOOLEAN :
         IF ok THEN pc' = "read_next" /\ UNCHANGED result
         ELSE Return("finish")
    /\ header' = NoHeader
    /\ target_path' = NoPath
    /\ remaining' = 0

\* A skip that goes on to the next header without finish().
SkipNameWithoutFinish ==
    /\ pc = "entry"
    /\ IsSkipped(header.name)
    /\ pc' = "read_next"
    /\ header' = NoHeader
    /\ target_path' = NoPath
    /\ remaining' = 0
    /\ total_before' = 0
    /\ UNCHANGED <<result, finish_calls>>
    /\ UNCHANGED <<headers, flavor, ncomp, comp, nread, total_bytes, disk, stream_pos>>
    /\ UNCHANGED <<started, regular_by, created_by, matched, header_error>>

\* if name.is_empty() || name == "." || name == "Payload" { finish()?; continue }
SkipName ==
    /\ pc = "entry"
    /\ IsSkipped(header.name)
    /\ FinishEntry
    /\ UNCHANGED <<headers, flavor, ncomp, comp, nread, total_bytes, disk, stream_pos>>
    /\ UNCHANGED <<started, regular_by, created_by, matched, header_error>>

\* clean_name, target_path, and fs::create_dir_all(parent)?
EnsureParent ==
    /\ pc = "entry"
    /\ ~IsSkipped(header.name)
    /\ LET clean_name == StripPrefix(header.name)
           target == ParsePath(Join(output_dir, clean_name))
           made == IF HasParent(target)
                   THEN CreateDirAll(dirs, files, Parent(target))
                   ELSE [ok |-> TRUE, dirs |-> dirs]
       IN /\ target_path' = target
          /\ dirs' = made.dirs
          /\ IF made.ok
             THEN pc' = "classify" /\ UNCHANGED result
             ELSE Return("create_dir_all(parent)")
    /\ UNCHANGED <<headers, flavor, ncomp, comp, nread, total_bytes, files>>
    /\ UNCHANGED <<header, remaining, stream_pos, history>>

Note(log, at) ==
    [q \in DOMAIN log \cup {at} |->
        (IF q \in DOMAIN log THEN log[q] ELSE {}) \cup (IF q = at THEN {comp} ELSE {})]

\* match FileType::from_mode(mode) { Directory .. Regular .. _ }
MatchFileType ==
    /\ pc = "classify"
    /\ LET file_type == from_mode(header.mode)
           at == FileTarget(dirs, target_path).at
       IN CASE file_type = "Directory" ->
                 LET made == CreateDirAll(dirs, files, target_path) IN
                 /\ dirs' = made.dirs
                 /\ IF made.ok
                    THEN pc' = "finish" /\ UNCHANGED result
                    ELSE Return("create_dir_all(target_path)")
                 /\ UNCHANGED <<files, remaining, regular_by, created_by>>
            [] file_type = "Regular" /\ header.file_size > 0 ->
                 LET made == CreateFile(dirs, files, target_path) IN
                 /\ files' = made.files
                 /\ regular_by' = Note(regular_by, at)
                 /\ IF made.ok
                    THEN /\ remaining' = header.file_size
                         /\ created_by' = Note(created_by, at)
                         /\ pc' = "copy"
                         /\ UNCHANGED result
                    ELSE /\ Return("File::create")
                         /\ UNCHANGED <<remaining, created_by>>
                 /\ UNCHANGED dirs
            [] file_type = "Regular" /\ header.file_size = 0 ->
                 /\ regular_by' = Note(regular_by, at)
                 /\ pc' = "finish"
                 /\ UNCHANGED <<result, disk, remaining, created_by>>
            [] OTHER ->
                 /\ pc' = "finish"
                 /\ UNCHANGED <<result, disk, remaining, regular_by, created_by>>
    /\ UNCHANGED <<headers, flavor, ncomp, comp, nread, total_bytes>>
    /\ UNCHANGED <<header, target_path, stream_pos>>
    /\ UNCHANGED <<finish_calls, total_before, started, matched, header_error>>

\* A read that always asks for the whole buffer.
to_read_whole_buffer == BufLen

\* One turn of `while remaining > 0`: a read of up to
\* min(remaining, buf.len()) bytes, then write_all of what it returned.
to_read == Min(remaining, BufLen)

CopyStep ==
    /\ pc = "copy"
    /\ remaining > 0
    /\ LET at == FileTarget(dirs, target_path).at IN
       \/ \* Ok(0) => break, and Err(e) => break
          /\ \E r \in {"Eof", "Err"} : pc' = "finish"
          /\ matched' = Deviated
          /\ UNCHANGED <<result, files, remaining, stream_pos, total_bytes>>
       \/ \* Ok(n)
          \E n \in ReadLens(to_read) :
            LET bytes == Segment(comp, stream_pos, stream_pos + n) IN
            /\ stream_pos' = stream_pos + n
            /\ \/ /\ files' = WriteAll(files, at, bytes)
                  /\ remaining' = remaining - n
                  /\ total_bytes' = total_bytes + n
                  /\ pc' = IF remaining' > 0 THEN "copy" ELSE "finish"
                  /\ UNCHANGED <<result, matched>>
               \/ \* write_all(..)? fails with part of the bytes written
                  /\ \E k \in {0, n - 1} :
                       files' = WriteAll(files, at,
                                   Segment(comp, stream_pos, stream_pos + k))
                  /\ Return("write_all")
                  /\ matched' = Deviated
                  /\ UNCHANGED <<remaining, total_bytes>>
    /\ UNCHANGED <<headers, flavor, ncomp, comp, nread, dirs, header, target_path>>
    /\ UNCHANGED <<finish_calls, total_before, started, regular_by, created_by, header_error>>

\* payload_reader.finish()? at the end of the iteration
Finish ==
    /\ pc = "finish"
    /\ FinishEntry
    /\ UNCHANGED <<headers, flavor, ncomp, comp, nread, total_bytes, disk, stream_pos>>
    /\ UNCHANGED <<started, regular_by, created_by, matched, header_error>>

Next ==
    \/ CreateOutputDir
    \/ OpenPackage
    \/ RootComponent
    \/ ComponentPackages
    \/ NextComponent
    \/ PayloadReader
    \/ ReadNext
    \/ SkipName
    \/ EnsureParent
    \/ MatchFileType
    \/ CopyStep
    \/ Finish

Spec == Init /\ [][Next]_vars

----------------------------------------------------------------------------
(* Properties *)

\* The entry of this iteration is being processed.
InEntry == pc \in {"entry", "classify", "copy", "finish"}

\* The file the entry's target path names on disk.
TargetFile == FileTarget(dirs, target_path).at

\* The copy loop of a Regular entry with file_size > 0 is running or has ended.
Copying ==
    /\ pc \in {"copy", "finish"}
    /\ from_mode(header.mode) = "Regular"
    /\ header.file_size > 0

\* The first n bytes of the entry that component c's payload is at.
Prefix(c, n) == IF n = 0 THEN <<>> ELSE <<Segment(c, 0, n)>>

Latest(S) == CHOOSE c \in S : \A d \in S : d <= c

\* What the run made on disk: everything but "/" and the working directory.
Made == (dirs \cup DOMAIN files) \ {<<>>, Cwd}

\* C1: extract returns an Err only when creating the output root or
\* PkgReader::new fails; every other failure is absorbed and extract
\* returns Ok.
C1_OnlyOpenErrorsPropagate ==
    pc = "done" =>
        result \in {"Ok", "create_dir_all(output_dir)", "PkgReader::new"}

\* C2: for every header read_next returned, finish is called exactly once
\* before read_next is called again, on every path through the iteration,
\* and no content is read once finish has been called.
C2_FinishOncePerEntry ==
    /\ finish_calls <= 1
    /\ (pc = "read_next" /\ nread > 0) => finish_calls = 1
    /\ InEntry => finish_calls = 0

\* A second header is about to be read after a copy that stopped early.
C2_Witness ==
    /\ pc = "read_next"
    /\ nread = 2
    /\ finish_calls = 1
    /\ headers = CollisionHeaders
    /\ total_bytes = 2

\* C3: an entry that is not skipped by name and whose type is neither
\* Directory nor Regular changes nothing on disk.
C3_UnsupportedNoFsAction ==
    [][(/\ InEntry
        /\ ~IsSkipped(header.name)
        /\ from_mode(header.mode) \notin {"Directory", "Regular"})
       => UNCHANGED <<dirs, files>>]_vars

\* C4: while a Regular entry of size N > 0 is copied, each read asks for at
\* most min(remaining, 8192) bytes, bytes written + remaining = N, at most N
\* bytes are written, the file holds the first bytes of the content in order,
\* and when all N bytes were delivered the file holds exactly the content
\* and the running total has grown by exactly N.
C4_CopyLoop ==
    Copying =>
        LET N == header.file_size
            written == ContentLen(files[TargetFile])
        IN /\ TargetFile \in DOMAIN files
           /\ remaining >= 0
           /\ written + remaining = N
           /\ written <= N
           /\ files[TargetFile] = Prefix(comp, written)
           /\ total_bytes = total_before + written
           /\ (pc = "copy") => (to_read <= remaining /\ to_read <= 8192)
           /\ (remaining = 0) =>
                 /\ files[TargetFile] = <<Segment(comp, 0, N)>>
                 /\ total_bytes = total_before + N

\* A file longer than the buffer was copied whole, after another one.
C4_Witness ==
    /\ pc = "finish"
    /\ header = Hdr(BigName, RegMode, BigSize)
    /\ remaining = 0
    /\ files[TargetFile] = <<Segment(comp, 0, BigSize)>>
    /\ total_before = BigSize
    /\ total_bytes = 2 * BigSize

\* C5: when the copy stops early (a read of 0 bytes or a read error while
\* remaining > 0) the file holds exactly the bytes read so far, a strict
\* prefix of the content; the entry is finalized, the iteration goes on to
\* the next entry of the component and the run does not fail.
C5_EarlyStopContinues ==
    [][(Copying /\ pc = "finish" /\ remaining > 0)
       => /\ files[TargetFile] = Prefix(comp, header.file_size - remaining)
          /\ finish_calls' = 1
          /\ files' = files
          /\ pc' = "read_next"
          /\ result' = "none"]_vars

\* C6 as stated: when two components each had a Regular entry at the same
\* path, the file there holds, once extract has returned Ok, bytes of the
\* later of them only.
C6_LaterRegularEntryWins ==
    (pc = "done" /\ result = "Ok") =>
        \A p \in DOMAIN regular_by :
            (Cardinality(regular_by[p]) >= 2 /\ p \in DOMAIN files) =>
                \A i \in 1..Len(files[p]) : files[p][i].comp = Latest(regular_by[p])

\* C6 as amended: when two components each created the file at a path (a
\* Regular entry of size > 0 whose File::create succeeded), the file holds
\* from then on, and after extract has returned, bytes of the later of them
\* only; File::create never fails because the file is already there.
C6_LaterCreatorWins ==
    /\ \A p \in DOMAIN created_by :
          Cardinality(created_by[p]) >= 2 =>
              /\ p \in DOMAIN files
              /\ \A i \in 1..Len(files[p]) :
                    files[p][i].comp = Latest(created_by[p])
    /\ result = "File::create" => TargetFile \notin DOMAIN files

\* Two components wrote bin/tool and the run ended with the second one's bytes.
C6_Witness ==
    /\ pc = "done"
    /\ result = "Ok"
    /\ LET p == OutRoot \o <<Bin, Tool>> IN
         /\ p \in DOMAIN created_by
         /\ created_by[p] = {1, 2}
         /\ files[p] = <<Segment(2, 0, 3)>>

\* C7: when the enumeration of a product package succeeds, every component
\* has been handed to extract_component_package, in order, when extract
\* returns.
C7_AllComponentsAttempted ==
    (pc = "done" /\ flavor = "Product") =>
        started = [i \in 1..ncomp |-> i]

\* C8: every directory and file the run makes lies under the output root.
C8_UnderOutputRoot ==
    \A p \in Made : StartsWith(p, OutRoot)

\* C9: an entry named "", "." or "Payload" changes nothing on disk; any
\* other name is joined to the output root after one leading "Payload/" is
\* removed; and the entries "Payload", "Payload/bin/" (directory),
\* "Payload/bin/tool" (regular, 3 bytes) leave exactly the directory bin and
\* the file bin/tool with those 3 bytes under the output root.
C9_Normalize ==
    /\ [][(InEntry /\ header.name \in {<<>>, Dot, Payload})
          => UNCHANGED <<dirs, files>>]_vars
    /\ [](pc \in {"classify", "copy", "finish"} =>
            /\ header.name \in {ToolName, BareToolName} =>
                  target_path.comps = <<output_dir, Bin, Tool>>
            /\ header.name = BinDirName =>
                  target_path.comps = <<output_dir, Bin>>
            /\ header.name = TwicePayloadName =>
                  target_path.comps = <<output_dir, Payload>>
            /\ header.name = EvilName =>
                  target_path.comps = <<output_dir, DotDot, Evil>>
            /\ ~target_path.abs => Head(target_path.comps) = output_dir)
    /\ []((pc = "done" /\ matched = Len(Scenario) /\ Len(started) = 1) =>
            /\ dirs = {<<>>, Cwd, OutRoot, OutRoot \o <<Bin>>}
            /\ DOMAIN files = {OutRoot \o <<Bin, Tool>>}
            /\ files[OutRoot \o <<Bin, Tool>>] = <<Segment(1, 0, 3)>>)

\* The scenario's three entries were extracted and extract returned Ok.
C9_Witness ==
    /\ pc = "done"
    /\ result = "Ok"
    /\ matched = Len(Scenario)
    /\ Len(started) = 1
    /\ OutRoot \o <<Bin, Tool>> \in DOMAIN files

\* C10: when read_next fails in a component, the components after it are
\* still extracted and extract returns success.
C10_HeaderErrorAbsorbed ==
    (pc = "done" /\ header_error) =>
        /\ result = "Ok"
        /\ started = [i \in 1..ncomp |-> i]

====
